---- MODULE Spec2Model ----
(***************************************************************************)
(* A model of the grunt feed aggregator: the entry identifier scheme       *)
(* (types.rs), the repository over its five sled trees (repo.rs), the      *)
(* ingestion pipeline (refresh.rs) and the HTTP handlers (service.rs).     *)
(*                                                                         *)
(* Strings are sequences of bytes.  Option<T> is a sequence of length at   *)
(* most one: None is <<>> and Some(v) is <<v>>.  An EntryId is the 8-byte  *)
(* array `bytes` of from_ident_and_date, i.e. the in-memory layout of the  *)
(* u64 that from_ne_bytes builds; the trees iterate in the lexicographic   *)
(* order of these key bytes.                                               *)
(***************************************************************************)
EXTENDS Integers, Sequences, FiniteSets, TLC

VARIABLES subs, entries, unread, starred, taggings, idgen, txs, marks, written, last,
          handler, cycle

vars == <<subs, entries, unread, starred, taggings, idgen, txs, marks, written, last,
          handler, cycle>>

None == <<>>
Some(v) == <<v>>
IsSome(o) == Len(o) = 1
Get(o) == o[1]

(***************************************************************************)
(* Bounds of the model.                                                    *)
(***************************************************************************)
MaxFeedId == 2
MaxCalls == 2
MaxPage == 2
MaxPerPage == 2

FeedIds == 1..MaxFeedId

(***************************************************************************)
(* types.rs: fletcher16 and EntryId::from_ident_and_date.                  *)
(***************************************************************************)
FletcherModulus == 255
BucketSeconds == 1000

RECURSIVE FletcherSums(_, _, _)
FletcherSums(bytes, sum1, sum2) ==
    IF bytes = <<>> THEN <<sum1, sum2>>
    ELSE LET s1 == (sum1 + Head(bytes)) % FletcherModulus
             s2 == (sum2 + s1) % FletcherModulus
         IN  FletcherSums(Tail(bytes), s1, s2)

\* (sum2 << 8) | sum1 as a u16
fletcher16(bytes) ==
    LET s == FletcherSums(bytes, 0, 0)
    IN  (s[2] * 256 + s[1]) % 65536

\* i64 division truncates toward zero
TruncDiv(a, b) == IF a >= 0 THEN a \div b ELSE -((-a) \div b)

\* (q as u32).to_be_bytes(): the two's complement bytes of q mod 2^32
U32BeBytes(q) ==
    <<(q \div 16777216) % 256, (q \div 65536) % 256, (q \div 256) % 256, q % 256>>

U16BeBytes(w) == <<(w \div 256) % 256, w % 256>>

from_ident_and_date(name, date) ==
    U32BeBytes(TruncDiv(date, BucketSeconds)) \o U16BeBytes(fletcher16(name)) \o <<0, 0>>

(***************************************************************************)
(* Order of the keys of a tree: byte-wise lexicographic.                   *)
(***************************************************************************)
RECURSIVE KeyLess(_, _)
KeyLess(a, b) ==
    IF a = <<>> \/ b = <<>> THEN a = <<>> /\ b # <<>>
    ELSE IF Head(a) # Head(b) THEN Head(a) < Head(b)
    ELSE KeyLess(Tail(a), Tail(b))

\* the keys of S in ascending order (Tree::iter)
RECURSIVE Ascending(_)
Ascending(S) ==
    IF S = {} THEN <<>>
    ELSE LET m == CHOOSE x \in S : \A y \in S \ {x} : KeyLess(x, y)
         IN  <<m>> \o Ascending(S \ {m})

\* DoubleEndedIterator::rev
RECURSIVE Rev(_)
Rev(s) == IF s = <<>> THEN <<>> ELSE Rev(Tail(s)) \o <<Head(s)>>

(***************************************************************************)
(* rsst feed.rs: the parsed document.  Only what the core reads is kept.   *)
(***************************************************************************)
sa == <<97>>
sb == <<98>>
sab == <<97, 98>>

NoMedia == <<>>

Item(guid, link, pub_date) ==
    [title |-> None, link |-> link, description |-> None, author |-> None,
     guid |-> guid, pub_date |-> pub_date, content |-> None,
     content_encoded |-> None, media |-> NoMedia]

ItemA == Item(Some(sa), None, Some(1500))
ItemB == Item(Some(sb), Some(sa), Some(1000))
ItemL == Item(None, Some(sa), None)
ItemN == Item(None, None, Some(2000))

Feed(title, items) == [title |-> title, link |-> title, items |-> items]

FeedAB == Feed(sa, <<ItemA, ItemB>>)
FeedNL == Feed(sb, <<ItemN, ItemL>>)

Feeds == {FeedAB, FeedNL}

\* two instants of the wall clock (OffsetDateTime::now_utc)
Clock == {3000, 4000}

(***************************************************************************)
(* types.rs: Entry::from_item.                                             *)
(***************************************************************************)
UNIX_EPOCH == 0

IsImage(media) ==
    \/ media.medium = Some("image")
    \/ /\ IsSome(media.mime_type)
       /\ Len(Get(media.mime_type)) >= 6
       /\ SubSeq(Get(media.mime_type), 1, 6) = <<105, 109, 97, 103, 101, 47>>

RECURSIVE FindImage(_)
FindImage(media) ==
    IF media = <<>> THEN None
    ELSE IF IsSome(Head(media).url) /\ IsImage(Head(media)) THEN Head(media).url
    ELSE FindImage(Tail(media))

Or(a, b) == IF IsSome(a) THEN a ELSE b

\* the link is taken before the guid
IdentLinkFirst(item) == Or(item.link, IF IsSome(item.guid) THEN item.guid ELSE None)

Ident(item) == Or(IF IsSome(item.guid) THEN item.guid ELSE None, item.link)

\* the explicit content field first, then the encoded one, then the description
ContentExplicitFirst(item) == Or(item.content, Or(item.content_encoded, item.description))

\* line 67
Content(item) == Or(item.content_encoded, item.content)

\* the revision that falls back to the ingestion time
from_itemNowFallback(feed_id, item, created_at) ==
    LET ident == Ident(item)
        published == IF IsSome(item.pub_date) THEN Get(item.pub_date) ELSE created_at
    IN  IF ~IsSome(ident) THEN None
        ELSE Some([id |-> from_ident_and_date(Get(ident), published),
                   feed_id |-> feed_id,
                   title |-> item.title,
                   url |-> item.link,
                   extracted_content_url |-> None,
                   author |-> item.author,
                   content |-> Content(item),
                   summary |-> item.description,
                   published |-> published,
                   created_at |-> created_at,
                   image |-> FindImage(item.media)])

from_item(feed_id, item, created_at) ==
    LET ident == Ident(item)
        published == IF IsSome(item.pub_date) THEN Get(item.pub_date) ELSE UNIX_EPOCH
    IN  IF ~IsSome(ident) THEN None
        ELSE Some([id |-> from_ident_and_date(Get(ident), published),
                   feed_id |-> feed_id,
                   title |-> item.title,
                   url |-> item.link,
                   extracted_content_url |-> None,
                   author |-> item.author,
                   content |-> Content(item),
                   summary |-> item.description,
                   published |-> published,
                   created_at |-> created_at,
                   image |-> FindImage(item.media)])

(***************************************************************************)
(* The trees.  A tree is a function from its keys; unread and starred map  *)
(* to () and are kept as sets of keys.                                     *)
(***************************************************************************)
Lookup(tree, key) == IF key \in DOMAIN tree THEN Some(tree[key]) ELSE None

Put(tree, key, val) ==
    [k \in DOMAIN tree \cup {key} |-> IF k = key THEN val ELSE tree[k]]

Remove(tree, key) == [k \in DOMAIN tree \ {key} |-> tree[k]]

Count(bag, key) == IF key \in DOMAIN bag THEN bag[key] ELSE 0

Empty == << >>

Store == [entries |-> entries, unread |-> unread, marks |-> marks, written |-> written]

(***************************************************************************)
(* repo.rs: Repo::insert_entry.  The closure runs against the value it     *)
(* read at the key (`prior`) and stages its writes; the commit applies the *)
(* staged writes to both trees at once.  marks counts, per id, the unread  *)
(* insertions that transactions committed, and written holds the entry of  *)
(* the latest committed transaction: both are history, not program state.  *)
(***************************************************************************)
TxWritesAlwaysMark(prior, entry) == [entry |-> entry, mark |-> TRUE]

TxWrites(prior, entry) == [entry |-> entry, mark |-> ~IsSome(prior)]

CommitWrites(st, w) ==
    [entries |-> Put(st.entries, w.entry.id, w.entry),
     unread  |-> IF w.mark THEN st.unread \cup {w.entry.id} ELSE st.unread,
     marks   |-> IF w.mark
                 THEN Put(st.marks, w.entry.id, Count(st.marks, w.entry.id) + 1)
                 ELSE st.marks,
     written |-> Put(st.written, w.entry.id, w.entry)]

\* the flag is set whenever the id is not flagged, row or no row
insert_entryByFlag(st, entry) ==
    CommitWrites(st, [entry |-> entry, mark |-> entry.id \notin st.unread])

insert_entry(st, entry) ==
    CommitWrites(st, TxWrites(Lookup(st.entries, entry.id), entry))

SetStore(st) ==
    /\ entries' = st.entries
    /\ unread' = st.unread
    /\ marks' = st.marks
    /\ written' = st.written

(***************************************************************************)
(* Concurrent insert_entry calls (main.rs joins the scheduler and the      *)
(* service, so a scheduled and a manual cycle overlap).  A transaction     *)
(* reads, stages, and commits if what it read is still current; else the   *)
(* closure is run again; a storage error ends the call with no write.      *)
(***************************************************************************)
Procs == {"scheduled", "manual"}

CreatedAtOf(p) == IF p = "scheduled" THEN 3000 ELSE 4000

TxFeed == 1

TxItems == {ItemA, ItemB}

\* retried: whether the closure of the call had to be run again (history)
Idle(calls, res, retried) ==
    [pc |-> "idle", calls |-> calls, entry |-> None, seen |-> None, res |-> res,
     retried |-> retried]

TxBegin(p, item) ==
    /\ txs[p].pc = "idle"
    /\ txs[p].calls < MaxCalls
    /\ LET e == Get(from_item(TxFeed, item, CreatedAtOf(p)))
       IN  txs' = [txs EXCEPT ![p] = [pc |-> "run", calls |-> @.calls + 1,
                                      entry |-> Some(e),
                                      seen |-> Lookup(entries, e.id),
                                      res |-> "none", retried |-> FALSE]]
    /\ UNCHANGED <<handler, cycle, subs, entries, unread, starred, taggings, idgen, marks, written, last>>

TxValidNever(p) == TRUE

TxValid(p) == Lookup(entries, Get(txs[p].entry).id) = txs[p].seen

TxCommit(p) ==
    /\ txs[p].pc = "run"
    /\ TxValid(p)
    /\ SetStore(CommitWrites(Store, TxWrites(txs[p].seen, Get(txs[p].entry))))
    /\ txs' = [txs EXCEPT ![p] = Idle(@.calls, "ok", @.retried)]
    /\ UNCHANGED <<handler, cycle, subs, starred, taggings, idgen, last>>

TxRetry(p) ==
    /\ txs[p].pc = "run"
    /\ ~TxValid(p)
    /\ txs' = [txs EXCEPT ![p].seen = Lookup(entries, Get(txs[p].entry).id),
                           ![p].retried = TRUE]
    /\ UNCHANGED <<handler, cycle, subs, entries, unread, starred, taggings, idgen, marks, written, last>>

TxFail(p) ==
    /\ txs[p].pc = "run"
    /\ txs' = [txs EXCEPT ![p] = Idle(@.calls, "err", @.retried)]
    /\ UNCHANGED <<handler, cycle, subs, entries, unread, starred, taggings, idgen, marks, written, last>>

(***************************************************************************)
(* repo.rs: the batched set mutations.                                     *)
(***************************************************************************)
add_unread(ids) ==
    /\ unread' = unread \cup ids
    /\ last' = [op |-> "add_unread", ids |-> ids]
    /\ UNCHANGED <<handler, cycle, subs, entries, starred, taggings, idgen, txs, marks, written>>

delete_unread(ids) ==
    /\ unread' = unread \ ids
    /\ last' = [op |-> "delete_unread", ids |-> ids]
    /\ UNCHANGED <<handler, cycle, subs, entries, starred, taggings, idgen, txs, marks, written>>

\* starring an entry also marks it read
add_starredMarksRead(ids) ==
    /\ starred' = starred \cup ids
    /\ unread' = unread \ ids
    /\ last' = [op |-> "add_starred", ids |-> ids]
    /\ UNCHANGED <<handler, cycle, subs, entries, taggings, idgen, txs, marks, written>>

add_starred(ids) ==
    /\ starred' = starred \cup ids
    /\ last' = [op |-> "add_starred", ids |-> ids]
    /\ UNCHANGED <<handler, cycle, subs, entries, unread, taggings, idgen, txs, marks, written>>

delete_starred(ids) ==
    /\ starred' = starred \ ids
    /\ last' = [op |-> "delete_starred", ids |-> ids]
    /\ UNCHANGED <<handler, cycle, subs, entries, unread, taggings, idgen, txs, marks, written>>

(***************************************************************************)
(* Initial state: Repo::new on an empty database.                          *)
(***************************************************************************)
\* no subscribe request and no refresh cycle is in progress
HandlerIdle == [pc |-> "idle"]
CycleIdle == [pc |-> "idle"]

Init ==
    /\ subs = Empty
    /\ entries = Empty
    /\ unread = {}
    /\ starred = {}
    /\ taggings = Empty
    /\ idgen = 0
    /\ txs = [p \in Procs |-> Idle(0, "none", FALSE)]
    /\ marks = Empty
    /\ written = Empty
    /\ last = [op |-> "init"]
    /\ handler = HandlerIdle
    /\ cycle = CycleIdle

IdOf(item) == Get(from_item(TxFeed, item, UNIX_EPOCH)).id

TxIds == {IdOf(item) : item \in TxItems}

NextTx ==
    \/ \E p \in Procs, item \in TxItems : TxBegin(p, item)
    \/ \E p \in Procs : TxCommit(p)
    \/ \E p \in Procs : TxRetry(p)
    \/ \E p \in Procs : TxFail(p)
    \/ \E id \in TxIds : delete_unread({id})

TxStep(p) == TxCommit(p) \/ TxRetry(p)

SpecTx == Init /\ [][NextTx]_vars /\ \A p \in Procs : WF_vars(TxStep(p))

(***************************************************************************)
(* C1: a committing insert_entry(e) stores e under e.id and, in the same   *)
(* step, inserts e.id into unread if and only if entries held no value at  *)
(* e.id before; no step shows one of the two writes without the other.     *)
(***************************************************************************)
C1_InsertEntryAtomic ==
    [][/\ \A p \in Procs :
            TxCommit(p) =>
                LET e == Get(txs[p].entry)
                    fresh == e.id \notin DOMAIN entries
                IN  /\ e.id \in DOMAIN entries' /\ entries'[e.id] = e
                    /\ unread' = IF fresh THEN unread \cup {e.id} ELSE unread
                    /\ Count(marks', e.id) = Count(marks, e.id) + (IF fresh THEN 1 ELSE 0)
       /\ \A id \in TxIds :
            /\ (id \notin DOMAIN entries /\ id \in DOMAIN entries') => id \in unread'
            /\ Count(marks', id) > Count(marks, id) =>
                   (id \notin DOMAIN entries /\ id \in DOMAIN entries')
      ]_vars

\* a second insert_entry for a stored and since read entry has committed
C1_Witness ==
    /\ \A p \in Procs : txs[p].pc = "idle" /\ txs[p].res = "ok"
    /\ \E id \in DOMAIN entries :
          /\ entries[id].created_at = CreatedAtOf("manual")
          /\ Count(marks, id) = 1
          /\ id \notin unread

(***************************************************************************)
(* C3: under any interleaving of concurrent insert_entry calls, every call *)
(* ends (committed or failed), every committed id has its row, the row is  *)
(* the latest committed write, and exactly one transaction inserted the id *)
(* into unread.                                                            *)
(***************************************************************************)
C3_Safe ==
    /\ DOMAIN entries = DOMAIN written
    /\ \A id \in DOMAIN entries :
          /\ entries[id] = written[id]
          /\ Count(marks, id) = 1
    /\ \A id \in DOMAIN marks : id \in DOMAIN entries

C3_ConcurrentInsert ==
    /\ []C3_Safe
    /\ \A p \in Procs :
          (txs[p].pc = "run") ~> (txs[p].pc = "idle" /\ txs[p].res \in {"ok", "err"})

\* two overlapping calls for one id both committed, one after a conflict
C3_Witness ==
    /\ \A p \in Procs : txs[p].pc = "idle" /\ txs[p].res = "ok" /\ txs[p].calls = 1
    /\ \E p \in Procs : txs[p].retried
    /\ Cardinality(DOMAIN entries) = 1
    /\ \A id \in DOMAIN entries : Count(marks, id) = 1

(***************************************************************************)
(* refresh.rs: refresh_feed.  `fail` numbers the insert_entry call that    *)
(* ends in a storage error (0: none does); the `?` returns it at once.     *)
(***************************************************************************)
FailAt == {0, 1, 2}

\* a failed insert_entry is passed over and the loop goes on
RECURSIVE RefreshItemsSwallow(_, _, _, _, _)
RefreshItemsSwallow(st, id, items, created_at, fail) ==
    IF items = <<>> THEN [st |-> st, res |-> "ok", fail |-> fail]
    ELSE LET entry == from_item(id, Head(items), created_at)
         IN  IF ~IsSome(entry)
             THEN RefreshItemsSwallow(st, id, Tail(items), created_at, fail)
             ELSE IF fail = 1
             THEN RefreshItemsSwallow(st, id, Tail(items), created_at, 0)
             ELSE RefreshItemsSwallow(insert_entry(st, Get(entry)), id, Tail(items),
                                      created_at, IF fail = 0 THEN 0 ELSE fail - 1)

RECURSIVE RefreshItems(_, _, _, _, _)
RefreshItems(st, id, items, created_at, fail) ==
    IF items = <<>> THEN [st |-> st, res |-> "ok", fail |-> fail]
    ELSE LET entry == from_item(id, Head(items), created_at)
         IN  IF ~IsSome(entry)
             THEN RefreshItems(st, id, Tail(items), created_at, fail)
             ELSE IF fail = 1 THEN [st |-> st, res |-> "err", fail |-> 0]
             ELSE RefreshItems(insert_entry(st, Get(entry)), id, Tail(items),
                               created_at, IF fail = 0 THEN 0 ELSE fail - 1)

\* how many times in a row the same document was refreshed with success
Runs(feed) ==
    IF last.op = "refresh_feed" /\ last.res = "ok" /\ last.feed = feed
    THEN IF last.runs < 2 THEN last.runs + 1 ELSE 2
    ELSE 1

refresh_feed(id, feed, created_at, fail) ==
    LET r == RefreshItems(Store, id, feed.items, created_at, fail)
    IN  /\ SetStore(r.st)
        /\ last' = [op |-> "refresh_feed", id |-> id, feed |-> feed, res |-> r.res,
                    runs |-> IF r.res = "ok" THEN Runs(feed) ELSE 0]
        /\ UNCHANGED <<handler, cycle, subs, starred, taggings, idgen, txs>>

\* the ids the items of a document are stored under
ItemIds(feed) ==
    {IdOf(feed.items[i]) :
        i \in {j \in 1..Len(feed.items) : IsSome(Ident(feed.items[j]))}}

EntryIds == UNION {ItemIds(feed) : feed \in Feeds}

Next ==
    \/ \E id \in FeedIds, feed \in Feeds, created_at \in Clock, fail \in FailAt :
          refresh_feed(id, feed, created_at, fail)
    \/ \E id \in EntryIds : delete_unread({id})

Spec == Init /\ [][Next]_vars

(***************************************************************************)
(* C2: refreshing the same document a second time changes neither the keys *)
(* of entries nor unread; every item with an identity has one row and was  *)
(* inserted into unread exactly once.                                      *)
(***************************************************************************)
C2_IdempotentIngestion ==
    [][(last'.op = "refresh_feed" /\ last'.runs = 2)
          => /\ DOMAIN entries' = DOMAIN entries
             /\ unread' = unread
             /\ Cardinality(DOMAIN entries') = Cardinality(DOMAIN entries)
             /\ Cardinality(unread') = Cardinality(unread)
             /\ \A e \in ItemIds(last'.feed) :
                   e \in DOMAIN entries' /\ Count(marks', e) = 1
      ]_vars

\* the document with the undated item was refreshed twice, at two instants
C2_Witness ==
    /\ last.op = "refresh_feed" /\ last.res = "ok" /\ last.runs = 2
    /\ last.feed = FeedNL
    /\ \E e \in DOMAIN entries : entries[e].created_at = 4000 /\ entries[e].published = UNIX_EPOCH
    /\ Cardinality(DOMAIN entries) = 1
    /\ unread = DOMAIN entries

(***************************************************************************)
(* C7: an entry is never mutated after insertion: once a row is stored     *)
(* under an id, no later step changes the value of that row.               *)
(***************************************************************************)
C7_EntryNeverMutated ==
    [][\A e \in DOMAIN entries : e \in DOMAIN entries' /\ entries'[e] = entries[e]]_vars

(***************************************************************************)
(* repo.rs: the listings.  Iterator::skip and take never fail; the skip    *)
(* count is per_page * (page.max(1) - 1).                                  *)
(***************************************************************************)
Max(a, b) == IF a >= b THEN a ELSE b
Min(a, b) == IF a <= b THEN a ELSE b

Skip(s, n) == SubSeq(s, n + 1, Len(s))
Take(s, n) == SubSeq(s, 1, Min(n, Len(s)))

\* Tree::iter().values()
Values(tree) ==
    LET keys == Ascending(DOMAIN tree)
    IN  [i \in 1..Len(keys) |-> tree[keys[i]]]

\* the same over a tree keyed by generated ids (subs, taggings)
RECURSIVE AscendingIds(_)
AscendingIds(S) ==
    IF S = {} THEN <<>>
    ELSE LET m == CHOOSE x \in S : \A y \in S : x <= y
         IN  <<m>> \o AscendingIds(S \ {m})

ValuesById(tree) ==
    LET keys == AscendingIds(DOMAIN tree)
    IN  [i \in 1..Len(keys) |-> tree[keys[i]]]

RECURSIVE Contains(_, _)
Contains(s, x) == s # <<>> /\ (Head(s) = x \/ Contains(Tail(s), x))

TagNames == {"tech", "news"}
TagLists == {<<>>, <<"tech">>, <<"news">>, <<"tech", "news">>}

\* every tagging is taken, whatever its name
get_feeds_by_tagsAny(tags) ==
    LET rows == ValuesById(taggings)
    IN  [i \in 1..Len(rows) |-> rows[i].feed_id]

get_feeds_by_tags(tags) ==
    LET rows == SelectSeq(ValuesById(taggings), LAMBDA t : Contains(tags, t.name))
    IN  [i \in 1..Len(rows) |-> rows[i].feed_id]

PageSkip(page, per_page) == per_page * (Max(page, 1) - 1)

get_entries(page, per_page, tags) ==
    IF tags # <<>>
    THEN LET feeds == get_feeds_by_tags(tags)
         IN  Take(Skip(SelectSeq(Rev(Values(entries)),
                                 LAMBDA e : Contains(feeds, e.feed_id)),
                       PageSkip(page, per_page)),
                  per_page)
    ELSE Take(Skip(Rev(Values(entries)), PageSkip(page, per_page)), per_page)

\* entries.get per id; filter_map(Result::transpose) drops the None
RECURSIVE Resolve(_)
Resolve(ids) ==
    IF ids = <<>> THEN <<>>
    ELSE Lookup(entries, Head(ids)) \o Resolve(Tail(ids))

\* the ids are resolved first and the page is cut from the rows found
get_starred_entriesResolveFirst(page, per_page) ==
    Take(Skip(Resolve(Rev(Ascending(starred))), PageSkip(page, per_page)), per_page)

get_starred_entries(page, per_page) ==
    Resolve(Take(Skip(Rev(Ascending(starred)), PageSkip(page, per_page)), per_page))

Pages == 0..MaxPage
PerPages == 0..MaxPerPage

get_entries_call(page, per_page, tags) ==
    /\ last' = [op |-> "get_entries", page |-> page, per_page |-> per_page,
                tags |-> tags, res |-> "ok",
                items |-> get_entries(page, per_page, tags)]
    /\ UNCHANGED <<handler, cycle, subs, entries, unread, starred, taggings, idgen, txs, marks, written>>

get_starred_entries_call(page, per_page) ==
    /\ last' = [op |-> "get_starred_entries", page |-> page, per_page |-> per_page,
                tags |-> <<>>, res |-> "ok",
                items |-> get_starred_entries(page, per_page)]
    /\ UNCHANGED <<handler, cycle, subs, entries, unread, starred, taggings, idgen, txs, marks, written>>

(***************************************************************************)
(* service.rs: the entries handler.  Its skip count is                     *)
(* per_page * (page - 1) on usize, with no clamp: at page = 0 a build with *)
(* overflow checks panics, and one without wraps page - 1 to 2^64 - 1, so  *)
(* the product wraps to 2^64 - per_page (0 when per_page = 0), which skips *)
(* past the end of any tree.                                               *)
(***************************************************************************)
Builds == {"checked", "wrapping"}

SvcSkip(s, page, per_page) ==
    IF page >= 1 THEN Skip(s, per_page * (page - 1))
    ELSE IF per_page = 0 THEN s
    ELSE <<>>

svc_get_entries(page, per_page, is_starred, build) ==
    /\ last' =
         IF page = 0 /\ build = "checked"
         THEN [op |-> "svc_get_entries", page |-> page, per_page |-> per_page,
               tags |-> <<>>, starred |-> is_starred, res |-> "panic", items |-> <<>>]
         ELSE [op |-> "svc_get_entries", page |-> page, per_page |-> per_page,
               tags |-> <<>>, starred |-> is_starred, res |-> "ok",
               items |-> IF is_starred
                         THEN Resolve(Take(SvcSkip(Rev(Ascending(starred)), page, per_page),
                                           per_page))
                         ELSE Take(SvcSkip(Rev(Values(entries)), page, per_page),
                                   per_page)]
    /\ UNCHANGED <<handler, cycle, subs, entries, unread, starred, taggings, idgen, txs, marks, written>>

(***************************************************************************)
(* repo.rs: taggings.                                                      *)
(***************************************************************************)
MaxTaggings == 1

new_tagging_id ==
    /\ idgen < MaxTaggings
    /\ idgen' = idgen + 1
    /\ last' = [op |-> "new_tagging_id", id |-> idgen + 1]
    /\ UNCHANGED <<handler, cycle, subs, entries, unread, starred, taggings, txs, marks, written>>

add_tagging(tagging) ==
    /\ taggings' = Put(taggings, tagging.id, tagging)
    /\ last' = [op |-> "add_tagging", id |-> tagging.id]
    /\ UNCHANGED <<handler, cycle, subs, entries, unread, starred, idgen, txs, marks, written>>

delete_tagging(id) ==
    /\ taggings' = Remove(taggings, id)
    /\ last' = [op |-> "delete_tagging", id |-> id]
    /\ UNCHANGED <<handler, cycle, subs, entries, unread, starred, idgen, txs, marks, written>>

ListClock == {3000}
ListFeedIds == {1, 2}

NextList ==
    \/ \E id \in ListFeedIds, feed \in Feeds, created_at \in ListClock :
          refresh_feed(id, feed, created_at, 0)
    \/ new_tagging_id
    \/ \E id \in 1..idgen, feed_id \in ListFeedIds, name \in TagNames :
          add_tagging([id |-> id, feed_id |-> feed_id, name |-> name])
    \/ \E id \in 1..idgen : delete_tagging(id)
    \/ \E page \in Pages, per_page \in PerPages, tags \in TagLists :
          get_entries_call(page, per_page, tags)
    \/ \E page \in Pages, per_page \in PerPages, build \in Builds :
          svc_get_entries(page, per_page, FALSE, build)

SpecList == Init /\ [][NextList]_vars

NextStarred ==
    \/ \E id \in FeedIds, feed \in Feeds, created_at \in ListClock :
          refresh_feed(id, feed, created_at, 0)
    \/ \E id \in EntryIds : add_starred({id})
    \/ \E id \in EntryIds : delete_starred({id})
    \/ \E page \in Pages, per_page \in PerPages : get_starred_entries_call(page, per_page)
    \/ \E page \in Pages, per_page \in PerPages, build \in Builds :
          svc_get_entries(page, per_page, TRUE, build)

SpecStarred == Init /\ [][NextStarred]_vars

(***************************************************************************)
(* What a listing has to return, stated by rank: the rows of `rows` whose  *)
(* key has at least `skip` and fewer than `skip + n` greater keys in       *)
(* `keys`, greatest key first.                                             *)
(***************************************************************************)
Rank(keys, k) == Cardinality({x \in keys : KeyLess(k, x)})

InPage(keys, k, skip, n) == Rank(keys, k) >= skip /\ Rank(keys, k) < skip + n

Descending(items) ==
    \A i, j \in 1..Len(items) : i < j => KeyLess(items[j].id, items[i].id)

IsPageOf(items, keys, page, per_page) ==
    LET skip == per_page * (Max(page, 1) - 1)
        want == {k \in keys : InPage(keys, k, skip, per_page) /\ k \in DOMAIN entries}
    IN  /\ Descending(items)
        /\ {items[i].id : i \in 1..Len(items)} = want
        /\ \A i \in 1..Len(items) : items[i] = entries[items[i].id]

Tagged(e, tags) ==
    \E t \in DOMAIN taggings :
        /\ \E i \in 1..Len(tags) : tags[i] = taggings[t].name
        /\ taggings[t].feed_id = e.feed_id

(***************************************************************************)
(* C5: with pairwise distinct publish times, get_entries(1, per_page >=    *)
(* number of entries, no tags) returns all entries, newest first.          *)
(***************************************************************************)
C5_ChronologicalOrder ==
    (/\ last.op = "get_entries" /\ last.page = 1 /\ last.tags = <<>>
     /\ last.per_page >= Cardinality(DOMAIN entries)
     /\ \A a, b \in DOMAIN entries : a # b => entries[a].published # entries[b].published)
    => /\ Len(last.items) = Cardinality(DOMAIN entries)
       /\ \A i, j \in 1..Len(last.items) :
             i < j => last.items[i].published > last.items[j].published

(***************************************************************************)
(* C6: every listing (Repo::get_entries, Repo::get_starred_entries and the *)
(* HTTP entries handler) answers, for every page and per_page, with the    *)
(* page cut after per_page * (max(page, 1) - 1) rows; page 0 is page 1 and *)
(* a page past the end is empty; none fails.                               *)
(***************************************************************************)
C6_PaginationBoundary ==
    last.op \in {"get_entries", "get_starred_entries", "svc_get_entries"}
    => /\ last.res = "ok"
       /\ IF last.op = "get_starred_entries"
             \/ (last.op = "svc_get_entries" /\ last.starred)
          THEN IsPageOf(last.items, starred, last.page, last.per_page)
          ELSE IsPageOf(last.items,
                        {k \in DOMAIN entries :
                            last.tags = <<>> \/ Tagged(entries[k], last.tags)},
                        last.page, last.per_page)

(***************************************************************************)
(* C8: get_starred_entries cuts the page from the starred ids, greatest    *)
(* key first, and returns the rows of those ids of the page that have one; *)
(* an id without a row is dropped and the call still succeeds.             *)
(***************************************************************************)
C8_OrphanTolerance ==
    last.op = "get_starred_entries"
    => /\ last.res = "ok"
       /\ IsPageOf(last.items, starred, last.page, last.per_page)
       /\ Len(last.items) <= last.per_page

\* page 1 of three starred ids holds two dangling ids, page 2 a row
C8_Witness ==
    /\ last.op = "get_starred_entries" /\ last.page = 1 /\ last.per_page = 2
    /\ Cardinality(starred) = 3
    /\ \E k \in starred : k \notin DOMAIN entries /\ InPage(starred, k, 0, 2)
    /\ Len(last.items) < 2
    /\ get_starred_entries(2, 2) # <<>>

(***************************************************************************)
(* C9: with a non-empty tag list, get_entries returns the page of exactly  *)
(* the entries whose feed_id is the feed_id of a tagging named in the list.*)
(***************************************************************************)
C9_TagFilter ==
    (last.op = "get_entries" /\ last.tags # <<>>)
    => /\ IsPageOf(last.items,
                   {k \in DOMAIN entries : Tagged(entries[k], last.tags)},
                   last.page, last.per_page)
       /\ \A i \in 1..Len(last.items) : Tagged(last.items[i], last.tags)

\* one feed is tagged "news" only, the other not at all: "tech" lists neither,
\* "news" lists the entry of the tagged feed and not the other's
C9_Witness ==
    /\ last.op = "get_entries" /\ last.tags = <<"news">>
    /\ last.page = 1 /\ last.per_page = 2
    /\ Len(last.items) = 1
    /\ Cardinality({entries[k].feed_id : k \in DOMAIN entries}) = 2
    /\ \E k \in DOMAIN entries : ~Tagged(entries[k], <<"news">>)
    /\ \A k \in DOMAIN entries : ~Tagged(entries[k], <<"tech">>)

(***************************************************************************)
(* refresh.rs: refresh_all_feeds.  `outcomes` gives, per subscription read *)
(* at the start, what its fetch task returned: Some(feed) or None for a    *)
(* fetch or parse error.  join_all keeps the order of the subscriptions.   *)
(* Every stored feed_url went through RssRequest::new in the subscribe     *)
(* handler, so building the requests does not fail here.                   *)
(***************************************************************************)
MaxSubs == 3

\* a failed fetch ends the cycle
RECURSIVE RefreshAllFailFast(_, _, _, _, _)
RefreshAllFailFast(st, ids, outcomes, created_at, fail) ==
    IF ids = <<>> THEN [st |-> st, res |-> "ok"]
    ELSE LET o == outcomes[Head(ids)]
         IN  IF ~IsSome(o) THEN [st |-> st, res |-> "ok"]
             ELSE LET r == RefreshItems(st, Head(ids), Get(o).items, created_at, fail)
                  IN  IF r.res = "err" THEN [st |-> r.st, res |-> "err"]
                      ELSE RefreshAllFailFast(r.st, Tail(ids), outcomes, created_at, r.fail)

RECURSIVE RefreshAll(_, _, _, _, _)
RefreshAll(st, ids, outcomes, created_at, fail) ==
    IF ids = <<>> THEN [st |-> st, res |-> "ok"]
    ELSE LET o == outcomes[Head(ids)]
         IN  IF ~IsSome(o) THEN RefreshAll(st, Tail(ids), outcomes, created_at, fail)
             ELSE LET r == RefreshItems(st, Head(ids), Get(o).items, created_at, fail)
                  IN  IF r.res = "err" THEN [st |-> r.st, res |-> "err"]
                      ELSE RefreshAll(r.st, Tail(ids), outcomes, created_at, r.fail)

Outcomes == {None} \cup {Some(feed) : feed \in Feeds}

refresh_all_feeds(outcomes, created_at, fail) ==
    LET r == RefreshAll(Store, AscendingIds(DOMAIN subs), outcomes, created_at, fail)
    IN  /\ SetStore(r.st)
        /\ last' = [op |-> "refresh_all_feeds", res |-> r.res, fetched |-> outcomes,
                    fail |-> fail]
        /\ UNCHANGED <<handler, cycle, subs, starred, taggings, idgen, txs>>

(***************************************************************************)
(* types.rs: Subscription::from_feed; service.rs: the subscription         *)
(* handlers; repo.rs: delete_subscription.                                 *)
(***************************************************************************)
from_feed(id, feed, feed_url, created_at) ==
    [id |-> id, created_at |-> created_at, feed_id |-> id, title |-> feed.title,
     feed_url |-> feed_url, site_url |-> feed.link]

Urls == {sa}

svc_add_subscription(feed_url, fetched, created_at, fail) ==
    IF ~IsSome(fetched)
    THEN /\ last' = [op |-> "svc_add_subscription", res |-> "err", id |-> 0]
         /\ UNCHANGED <<handler, cycle, subs, entries, unread, starred, taggings, idgen, txs, marks, written>>
    ELSE /\ idgen < MaxSubs
         /\ LET id == idgen + 1
                r == RefreshItems(Store, id, Get(fetched).items, created_at, fail)
            IN  /\ idgen' = id
                /\ subs' = Put(subs, id, from_feed(id, Get(fetched), feed_url, created_at))
                /\ SetStore(r.st)
                /\ last' = [op |-> "svc_add_subscription", res |-> r.res, id |-> id]
         /\ UNCHANGED <<handler, cycle, starred, taggings, txs>>

\* the entries of the feed go with the subscription
delete_subscriptionCascade(id) ==
    /\ subs' = Remove(subs, id)
    /\ entries' = [k \in {x \in DOMAIN entries : entries[x].feed_id # id} |-> entries[k]]
    /\ last' = [op |-> "delete_subscription", id |-> id, existed |-> id \in DOMAIN subs]
    /\ UNCHANGED <<handler, cycle, unread, starred, taggings, idgen, txs, marks, written>>

delete_subscription(id) ==
    /\ subs' = Remove(subs, id)
    /\ last' = [op |-> "delete_subscription", id |-> id, existed |-> id \in DOMAIN subs]
    /\ UNCHANGED <<handler, cycle, entries, unread, starred, taggings, idgen, txs, marks, written>>

svc_delete_subscription(id) ==
    /\ subs' = Remove(subs, id)
    /\ last' = [op |-> "svc_delete_subscription", id |-> id, existed |-> id \in DOMAIN subs]
    /\ UNCHANGED <<handler, cycle, entries, unread, starred, taggings, idgen, txs, marks, written>>

CycleClock == {3000}
CycleFailAt == {0}
SubIds == 1..MaxSubs

NextCycle ==
    \/ \E feed_url \in Urls, fetched \in Outcomes, created_at \in CycleClock,
          fail \in CycleFailAt :
          svc_add_subscription(feed_url, fetched, created_at, fail)
    \/ \E outcomes \in [DOMAIN subs -> Outcomes], created_at \in CycleClock,
          fail \in CycleFailAt :
          refresh_all_feeds(outcomes, created_at, fail)

SpecCycle == Init /\ [][NextCycle]_vars

NextSubs ==
    \/ \E feed_url \in Urls, fetched \in Outcomes, created_at \in Clock, fail \in FailAt :
          svc_add_subscription(feed_url, fetched, created_at, fail)
    \/ \E id \in SubIds : delete_subscription(id)
    \/ \E id \in SubIds : svc_delete_subscription(id)

SpecSubs == Init /\ [][NextSubs]_vars

(***************************************************************************)
(* C4: in one cycle a failed fetch is skipped and nothing else: the cycle  *)
(* returns Ok, and every item with an identity of every feed whose fetch   *)
(* succeeded has its row, written by a subscription that fetched it, and   *)
(* was inserted into unread.                                               *)
(***************************************************************************)
Fetched(id) == last.fetched[id]

C4_PartialFailureIsolation ==
    (last.op = "refresh_all_feeds" /\ last.fail = 0)
    => /\ last.res = "ok"
       /\ \A id \in DOMAIN last.fetched :
             IsSome(Fetched(id)) =>
                \A e \in ItemIds(Get(Fetched(id))) :
                    /\ e \in DOMAIN entries
                    /\ e \in DOMAIN marks
                    /\ \E by \in DOMAIN last.fetched :
                          /\ IsSome(Fetched(by))
                          /\ e \in ItemIds(Get(Fetched(by)))
                          /\ entries[e].feed_id = by

\* three subscriptions, the fetch of the first fails, the other two feeds
\* differ and are both stored under their own feed ids
C4_Witness ==
    /\ last.op = "refresh_all_feeds" /\ last.res = "ok"
    /\ DOMAIN last.fetched = {1, 2, 3}
    /\ Fetched(1) = None /\ Fetched(2) = Some(FeedNL) /\ Fetched(3) = Some(FeedAB)
    /\ DOMAIN entries = EntryIds
    /\ \A e \in ItemIds(FeedNL) : entries[e].feed_id = 2
    /\ \A e \in ItemIds(FeedAB) : entries[e].feed_id = 3

(***************************************************************************)
(* C10: delete_subscription(id), in the repository and in the handler,     *)
(* removes the row subs[id] and nothing else; the entries of the deleted   *)
(* feed are still listed by get_entries.                                   *)
(***************************************************************************)
Listed == get_entries(1, Cardinality(DOMAIN entries), <<>>)

Deleted == last.op \in {"delete_subscription", "svc_delete_subscription"}

C10_DeleteSubscriptionNoCascade ==
    /\ [][Deleted'
            => /\ subs' = Remove(subs, last'.id)
               /\ entries' = entries
               /\ unread' = unread
               /\ starred' = starred
               /\ taggings' = taggings
        ]_vars
    /\ [](Deleted
            => \A k \in DOMAIN entries :
                  entries[k].feed_id = last.id
                  => \E i \in 1..Len(Listed) : Listed[i] = entries[k])

\* a subscription with stored entries was deleted; its entries are listed
C10_Witness ==
    /\ last.op = "delete_subscription" /\ last.existed
    /\ last.id \notin DOMAIN subs
    /\ \E i \in 1..Len(Listed) : Listed[i].feed_id = last.id
    /\ \E k \in unread : entries[k].feed_id = last.id

(***************************************************************************)
(* service.rs: the add_subscription handler, one step per statement, so    *)
(* that the order of its effects is visible.  handler.fetched is what the  *)
(* fetch returned, handler.feed the document the handler goes on with,     *)
(* handler.flushed whether flush_async has completed for this request.     *)
(***************************************************************************)
MaxSubscribes == 2

Handler(pc, feed_url, created_at, fetched, feed, id, flushed, res) ==
    [pc |-> pc, feed_url |-> feed_url, created_at |-> created_at, fetched |-> fetched,
     feed |-> feed, id |-> id, flushed |-> flushed, res |-> res]

HandlerAt(pc) == [handler EXCEPT !.pc = pc]

\* line 177: the request arrives, created_at = now_utc()
svc_subscribe_request(feed_url, created_at) ==
    /\ handler.pc \in {"idle", "done"}
    /\ idgen < MaxSubscribes
    /\ handler' = Handler("fetch", feed_url, created_at, None, None, 0, FALSE, "none")
    /\ last' = [op |-> "svc_subscribe_request"]
    /\ UNCHANGED <<cycle, subs, entries, unread, starred, taggings, idgen, txs, marks, written>>

\* a failed fetch is taken for an empty document and the handler goes on
svc_subscribe_fetchGoesOn(fetched) ==
    /\ handler.pc = "fetch"
    /\ handler' = [handler EXCEPT !.pc = "generate", !.fetched = fetched,
                                  !.feed = IF IsSome(fetched) THEN fetched
                                           ELSE Some(Feed(<<>>, <<>>))]
    /\ last' = [op |-> "svc_subscribe_fetch"]
    /\ UNCHANGED <<cycle, subs, entries, unread, starred, taggings, idgen, txs, marks, written>>

\* lines 178-180: exec(...).await?
svc_subscribe_fetch(fetched) ==
    /\ handler.pc = "fetch"
    /\ handler' = IF IsSome(fetched)
                  THEN [handler EXCEPT !.pc = "generate", !.fetched = fetched,
                                       !.feed = fetched]
                  ELSE [handler EXCEPT !.pc = "done", !.res = "err"]
    /\ last' = [op |-> "svc_subscribe_fetch"]
    /\ UNCHANGED <<cycle, subs, entries, unread, starred, taggings, idgen, txs, marks, written>>

\* line 181: FeedId::generate
svc_subscribe_generate ==
    /\ handler.pc = "generate"
    /\ idgen' = idgen + 1
    /\ handler' = [handler EXCEPT !.pc = "store", !.id = idgen + 1]
    /\ last' = [op |-> "svc_subscribe_generate"]
    /\ UNCHANGED <<cycle, subs, entries, unread, starred, taggings, txs, marks, written>>

\* lines 182-184: Subscription::from_feed and subs.insert
svc_subscribe_store ==
    /\ handler.pc = "store"
    /\ subs' = Put(subs, handler.id,
                   from_feed(handler.id, Get(handler.feed), handler.feed_url,
                             handler.created_at))
    /\ handler' = HandlerAt("refresh")
    /\ last' = [op |-> "svc_subscribe_store"]
    /\ UNCHANGED <<cycle, entries, unread, starred, taggings, idgen, txs, marks, written>>

\* line 185: refresh_feed(...)?, which takes its own created_at
svc_subscribe_refresh(created_at, fail) ==
    /\ handler.pc = "refresh"
    /\ LET r == RefreshItems(Store, handler.id, Get(handler.feed).items, created_at, fail)
       IN  /\ SetStore(r.st)
           /\ handler' = IF r.res = "ok" THEN HandlerAt("flush")
                         ELSE [handler EXCEPT !.pc = "done", !.res = "err"]
    /\ last' = [op |-> "svc_subscribe_refresh"]
    /\ UNCHANGED <<cycle, subs, starred, taggings, idgen, txs>>

\* line 186: flush_async().await?
svc_subscribe_flush ==
    /\ handler.pc = "flush"
    /\ handler' = [handler EXCEPT !.pc = "respond", !.flushed = TRUE]
    /\ last' = [op |-> "svc_subscribe_flush"]
    /\ UNCHANGED <<cycle, subs, entries, unread, starred, taggings, idgen, txs, marks, written>>

\* lines 188-189: the response
svc_subscribe_respond ==
    /\ handler.pc = "respond"
    /\ handler' = [handler EXCEPT !.pc = "done", !.res = "ok"]
    /\ last' = [op |-> "svc_subscribe_respond"]
    /\ UNCHANGED <<cycle, subs, entries, unread, starred, taggings, idgen, txs, marks, written>>

NextSubscribe ==
    \/ \E feed_url \in Urls, created_at \in Clock : svc_subscribe_request(feed_url, created_at)
    \/ \E fetched \in Outcomes : svc_subscribe_fetch(fetched)
    \/ svc_subscribe_generate
    \/ svc_subscribe_store
    \/ \E created_at \in Clock, fail \in FailAt : svc_subscribe_refresh(created_at, fail)
    \/ svc_subscribe_flush
    \/ svc_subscribe_respond

SpecSubscribe == Init /\ [][NextSubscribe]_vars

(***************************************************************************)
(* C11: a subscribe request whose fetch fails answers with the error and   *)
(* creates no subscription row, entry or unread flag (nor a feed id); a    *)
(* feed id is generated only after the fetch returned a document, the row  *)
(* is stored only under the generated id, entries are inserted only once   *)
(* the row is stored, the flush happens only once the document's items are *)
(* in, and the Ok response is given only after the flush.                  *)
(***************************************************************************)
Ingested(feed) == \A e \in ItemIds(feed) : e \in DOMAIN entries /\ e \in DOMAIN marks

C11_SubscribeOrder ==
    [][/\ (~IsSome(handler'.fetched))
            => /\ subs' = subs /\ entries' = entries /\ unread' = unread
               /\ marks' = marks /\ idgen' = idgen
               /\ handler'.res # "ok"
       /\ (idgen' # idgen) => subs' = subs /\ entries' = entries
       /\ (subs' # subs)
            => /\ handler.id = idgen /\ handler.id \notin DOMAIN subs
               /\ subs' = Put(subs, handler.id,
                              from_feed(handler.id, Get(handler.fetched),
                                        handler.feed_url, handler.created_at))
               /\ entries' = entries
       /\ (entries' # entries) => handler.id \in DOMAIN subs /\ ~handler.flushed
       /\ (handler'.flushed /\ ~handler.flushed)
            => /\ Ingested(Get(handler.fetched))
               /\ handler.id \in DOMAIN subs
               /\ handler.res = "none"
       /\ (handler'.res = "ok" /\ handler.res # "ok") => handler.flushed
      ]_vars

\* a request failed at the fetch after an earlier one succeeded, and nothing
\* but the first request's subscription and entries exist
C11_Witness ==
    /\ handler.pc = "done" /\ handler.res = "err" /\ ~IsSome(handler.fetched)
    /\ last.op = "svc_subscribe_fetch"
    /\ DOMAIN subs = {1} /\ idgen = 1
    /\ DOMAIN entries = ItemIds(FeedAB)

(***************************************************************************)
(* types.rs: the u64 of an EntryId.  u64::from_ne_bytes reads the array in *)
(* the byte order of the target, so the value is one of two, by the build. *)
(* A u64 is written as its eight base-256 digits, most significant first.  *)
(***************************************************************************)
Endians == {"little", "big"}

from_ne_bytes(bytes, endian) == IF endian = "big" THEN bytes ELSE Rev(bytes)

sabc == <<97, 98, 99>>
sbd == <<98, 96, 100>>
Names == {<<>>, sa, sb, sab, sabc, sbd}
Dates == {-1500, -1, 0, 999, 1000, 1500, 65536000, 1700000000, 2147483647}

EntryId_new(name, date, endian) ==
    /\ last' = [op |-> "from_ident_and_date", name |-> name, date |-> date,
                endian |-> endian,
                id |-> from_ne_bytes(from_ident_and_date(name, date), endian)]
    /\ UNCHANGED <<handler, cycle, subs, entries, unread, starred, taggings, idgen, txs,
                   marks, written>>

NextId == \E name \in Names, date \in Dates, endian \in Endians : EntryId_new(name, date, endian)

SpecId == Init /\ [][NextId]_vars

(***************************************************************************)
(* C12: the u64 of from_ident_and_date(s, t) is                            *)
(* ((t / 1000) mod 2^32) * 2^32 + fletcher16(s) * 2^16: of its four 16-bit *)
(* words, from the most significant, the first two are the high and low    *)
(* half of (t / 1000) mod 2^32, the third is fletcher16(s) and the last is *)
(* zero.                                                                   *)
(***************************************************************************)
Word(digits, i) == digits[2 * i - 1] * 256 + digits[2 * i]

C12_EntryIdEncoding ==
    last.op = "from_ident_and_date"
    => LET q == TruncDiv(last.date, 1000)
       IN  /\ Word(last.id, 1) = (q \div 65536) % 65536
           /\ Word(last.id, 2) = q % 65536
           /\ Word(last.id, 3) = fletcher16(last.name)
           /\ Word(last.id, 4) = 0

(***************************************************************************)
(* types.rs: Entry::from_item over items that carry content and media.     *)
(***************************************************************************)
Media(url, mime_type, medium) == [url |-> url, mime_type |-> mime_type, medium |-> medium]

mime_image == <<105, 109, 97, 103, 101, 47, 120>>
mime_imag == <<105, 109, 97, 103>>
mime_text == <<116, 101, 120, 116, 47, 120>>

MediaLists ==
    { NoMedia,
      <<Media(Some(sa), None, Some("video")), Media(Some(sb), None, Some("image"))>>,
      <<Media(Some(sa), Some(mime_image), None), Media(Some(sb), None, Some("image"))>>,
      <<Media(None, None, Some("image")), Media(Some(sb), Some(mime_imag), None),
        Media(Some(sab), Some(mime_image), Some("audio"))>>,
      <<Media(Some(sa), Some(mime_text), Some("document"))>> }

Options(v) == {None, Some(v)}

ContentItems ==
    { [title |-> None, link |-> link, description |-> description, author |-> None,
       guid |-> guid, pub_date |-> Some(1500), content |-> content,
       content_encoded |-> content_encoded, media |-> media] :
         guid \in Options(sa), link \in Options(sb), description \in Options(sab),
         content \in Options(sa), content_encoded \in Options(sb), media \in MediaLists }

from_item_call(item, created_at) ==
    /\ last' = [op |-> "from_item", item |-> item, entry |-> from_item(1, item, created_at)]
    /\ UNCHANGED <<handler, cycle, subs, entries, unread, starred, taggings, idgen, txs,
                   marks, written>>

NextItem == \E item \in ContentItems, created_at \in Clock : from_item_call(item, created_at)

SpecItem == Init /\ [][NextItem]_vars

\* the url of the first attachment with a url that is an image by its medium
\* or by its MIME type
StartsWith(str, prefix) ==
    Len(str) >= Len(prefix) /\ \A i \in 1..Len(prefix) : str[i] = prefix[i]

Pictures(media) ==
    {i \in 1..Len(media) :
        /\ IsSome(media[i].url)
        /\ \/ media[i].medium = Some("image")
           \/ /\ IsSome(media[i].mime_type)
              /\ StartsWith(Get(media[i].mime_type), <<105, 109, 97, 103, 101, 47>>)}

FirstPicture(media) ==
    IF Pictures(media) = {} THEN None
    ELSE media[CHOOSE i \in Pictures(media) : \A j \in Pictures(media) : i <= j].url

(***************************************************************************)
(* C13 as stated: the content of the entry is the item's content field if  *)
(* present, else its content:encoded, else its description; the image is   *)
(* the url of the first image attachment.                                  *)
(***************************************************************************)
C13_ContentPrecedence ==
    (last.op = "from_item" /\ IsSome(last.entry))
    => /\ Get(last.entry).content =
             (IF IsSome(last.item.content) THEN last.item.content
              ELSE IF IsSome(last.item.content_encoded) THEN last.item.content_encoded
              ELSE last.item.description)
       /\ Get(last.entry).image = FirstPicture(last.item.media)

(***************************************************************************)
(* C13 amended: the content of the entry is the item's content:encoded if  *)
(* present, else its content field, else absent; the description is the    *)
(* summary and never the content; the image is the url of the first image  *)
(* attachment.                                                             *)
(***************************************************************************)
C13_EncodedContentFirst ==
    (last.op = "from_item" /\ IsSome(last.entry))
    => /\ Get(last.entry).content =
             (IF IsSome(last.item.content_encoded) THEN last.item.content_encoded
              ELSE IF IsSome(last.item.content) THEN last.item.content
              ELSE None)
       /\ Get(last.entry).summary = last.item.description
       /\ Get(last.entry).image = FirstPicture(last.item.media)

\* the three texts are all present and differ; the second attachment is the image
C13_Witness ==
    /\ last.op = "from_item" /\ IsSome(last.entry)
    /\ last.item.content = Some(sa) /\ last.item.content_encoded = Some(sb)
    /\ last.item.description = Some(sab)
    /\ Get(last.entry).content = Some(sb)
    /\ Len(last.item.media) = 2 /\ Get(last.entry).image = last.item.media[2].url

(***************************************************************************)
(* refresh.rs: refresh_feed over documents that hold an item with neither  *)
(* guid nor link at the head, in the middle and at the end.                *)
(***************************************************************************)
FeedANL == Feed(sa, <<ItemA, ItemN, ItemL>>)
FeedNB == Feed(sb, <<ItemN, ItemB>>)
FeedLBN == Feed(sab, <<ItemL, ItemB, ItemN>>)
IdentFeeds == {FeedANL, FeedNB, FeedLBN}

NextIdent ==
    \/ \E id \in FeedIds, feed \in IdentFeeds, created_at \in Clock :
          refresh_feed(id, feed, created_at, 0)
    \/ \E id \in EntryIds : delete_unread({id})

SpecIdent == Init /\ [][NextIdent]_vars

(***************************************************************************)
(* C14: refresh_feed without a storage error returns Ok; each item with a  *)
(* guid is stored under the id of its guid, each item with a link only     *)
(* under the id of its link, with `published` its publish time or else the *)
(* unix epoch; an item with neither creates no row and no unread flag, and *)
(* the items before and after it are stored.                               *)
(***************************************************************************)
Identified(items) ==
    {i \in 1..Len(items) : IsSome(items[i].guid) \/ IsSome(items[i].link)}

PublishedOf(item) == IF IsSome(item.pub_date) THEN Get(item.pub_date) ELSE 0

ExpectedId(item) ==
    from_ident_and_date(IF IsSome(item.guid) THEN Get(item.guid) ELSE Get(item.link),
                        PublishedOf(item))

C14_IdentityDerivation ==
    [][last'.op = "refresh_feed"
         => LET items == last'.feed.items
                ids == {ExpectedId(items[i]) : i \in Identified(items)}
            IN  /\ last'.res = "ok"
                /\ DOMAIN entries' = DOMAIN entries \cup ids
                /\ unread' = unread \cup (ids \ DOMAIN entries)
                /\ \A i \in Identified(items) :
                      /\ entries'[ExpectedId(items[i])].published = PublishedOf(items[i])
                      /\ entries'[ExpectedId(items[i])].url = items[i].link
                      /\ entries'[ExpectedId(items[i])].feed_id = last'.id
      ]_vars

\* the first refresh of a document with an item without identity in the
\* middle: the items around it are stored, the one without a date at epoch 0
C14_Witness ==
    /\ last.op = "refresh_feed" /\ last.res = "ok" /\ last.feed = FeedANL
    /\ DOMAIN entries = {ExpectedId(ItemA), ExpectedId(ItemL)}
    /\ unread = DOMAIN entries
    /\ entries[ExpectedId(ItemL)].published = 0
    /\ entries[ExpectedId(ItemL)].created_at = 4000

(***************************************************************************)
(* refresh.rs: refresh_feed over documents whose items share the publish   *)
(* time and differ in the guid; the title tells the rows apart.            *)
(***************************************************************************)
Titled(guid) == [Item(Some(guid), None, Some(1500)) EXCEPT !.title = Some(guid)]

FeedAbcBd == Feed(sa, <<Titled(sabc), Titled(sbd)>>)
FeedBdAb == Feed(sb, <<Titled(sbd), Titled(sab)>>)
FeedAB2 == Feed(sab, <<Titled(sa), Titled(sb)>>)
DistinctFeeds == {FeedAbcBd, FeedBdAb, FeedAB2}

DistinctIds == UNION {ItemIds(feed) : feed \in DistinctFeeds}

NextDistinct ==
    \/ \E id \in FeedIds, feed \in DistinctFeeds, created_at \in Clock :
          refresh_feed(id, feed, created_at, 0)
    \/ \E id \in DistinctIds : delete_unread({id})

SpecDistinct == Init /\ [][NextDistinct]_vars

(***************************************************************************)
(* C15: after a document is ingested, two of its items with different      *)
(* identity strings and the same publish time have two separate rows, each *)
(* inserted into unread.                                                   *)
(***************************************************************************)
C15_EntryPerIdentity ==
    (last.op = "refresh_feed" /\ last.res = "ok")
    => \A i, j \in Identified(last.feed.items) :
          LET a == last.feed.items[i]
              b == last.feed.items[j]
          IN  (Ident(a) # Ident(b) /\ PublishedOf(a) = PublishedOf(b))
              => \E k1, k2 \in DOMAIN entries :
                    /\ k1 # k2
                    /\ entries[k1].title = a.title /\ entries[k2].title = b.title
                    /\ k1 \in DOMAIN marks /\ k2 \in DOMAIN marks

(***************************************************************************)
(* C16: an id is inserted into unread once, by the ingestion that creates  *)
(* its row: a refresh_feed never puts into unread an id that has a row and *)
(* is not unread (delete_unread removed it), whether it ends with Ok or    *)
(* with a storage error.                                                   *)
(***************************************************************************)
C16_UnreadOnce ==
    /\ [][last'.op = "refresh_feed"
            => \A e \in DOMAIN entries : e \notin unread => e \notin unread'
        ]_vars
    /\ [](\A e \in DOMAIN entries : Count(marks, e) = 1)

\* a document was ingested again after one of its entries was read
C16_Witness ==
    /\ last.op = "refresh_feed" /\ last.res = "ok" /\ last.feed = FeedAB
    /\ IdOf(ItemA) \in DOMAIN entries /\ IdOf(ItemA) \notin unread
    /\ IdOf(ItemB) \in unread

(***************************************************************************)
(* repo.rs: every operation that writes a tree, side by side.  A call of   *)
(* insert_entry is one step here (its transaction is atomic).  Dangling is *)
(* an id that no document of the model yields.                             *)
(***************************************************************************)
insert_entry_call(item, created_at) ==
    /\ SetStore(insert_entry(Store, Get(from_item(TxFeed, item, created_at))))
    /\ last' = [op |-> "insert_entry", item |-> item]
    /\ UNCHANGED <<handler, cycle, subs, starred, taggings, idgen, txs>>

Dangling == from_ident_and_date(sab, 5000)

MarkIds == {IdOf(ItemA), IdOf(ItemL), Dangling}

NextFrame ==
    \/ \E item \in TxItems : insert_entry_call(item, 3000)
    \/ \E feed \in Feeds : refresh_feed(TxFeed, feed, 3000, 0)
    \/ idgen = 0 /\ \E feed \in Feeds : svc_add_subscription(sa, Some(feed), 3000, 0)
    \/ \E outcomes \in [DOMAIN subs -> Outcomes] : refresh_all_feeds(outcomes, 3000, 0)
    \/ \E id \in DOMAIN subs : delete_subscription(id)
    \/ \E id \in MarkIds : add_unread({id})
    \/ \E id \in MarkIds : delete_unread({id})
    \/ \E id \in MarkIds : add_starred({id})
    \/ \E id \in MarkIds : delete_starred({id})

SpecFrame == Init /\ [][NextFrame]_vars

(***************************************************************************)
(* C17: starred changes only by add_starred and delete_starred: the        *)
(* ingestion operations, add_unread, delete_unread and delete_subscription *)
(* leave it as it is; add_starred and delete_starred add or remove exactly *)
(* the given ids, with or without a row, and leave unread and entries as   *)
(* they are.                                                               *)
(***************************************************************************)
C17_StarredFrame ==
    [][/\ last'.op \in {"insert_entry", "refresh_feed", "refresh_all_feeds",
                        "svc_add_subscription", "add_unread", "delete_unread",
                        "delete_subscription"}
            => starred' = starred
       /\ last'.op = "add_starred"
            => /\ starred' = starred \cup last'.ids
               /\ unread' = unread /\ entries' = entries
       /\ last'.op = "delete_starred"
            => /\ starred' = starred \ last'.ids
               /\ unread' = unread /\ entries' = entries
      ]_vars

\* an id without a row was starred while entries are stored and unread, one
\* of them starred too
C17_Witness ==
    /\ last.op = "add_starred" /\ last.ids = {Dangling}
    /\ Dangling \in starred /\ Dangling \notin DOMAIN entries
    /\ IdOf(ItemA) \in starred /\ IdOf(ItemA) \in unread
    /\ IdOf(ItemA) \in DOMAIN entries

(***************************************************************************)
(* refresh.rs with a failing store: `fail` = n > 0 makes the n-th call of  *)
(* insert_entry of the operation return a storage error.                   *)
(***************************************************************************)
FailFeeds == {FeedAB, FeedNL, FeedANL}
FailSubIds == {0, 1}

NextFail ==
    \/ \E feed \in FailFeeds, fail \in FailAt : refresh_feed(TxFeed, feed, 3000, fail)
    \/ idgen \in FailSubIds /\ \E feed \in Feeds : svc_add_subscription(sa, Some(feed), 3000, 0)
    \/ \E outcomes \in [DOMAIN subs -> Outcomes], fail \in FailAt :
          refresh_all_feeds(outcomes, 3000, fail)

SpecFail == Init /\ [][NextFail]_vars

\* the ids of the insert_entry calls of refresh_feed, in the order of the calls
RECURSIVE CallIds(_)
CallIds(items) ==
    IF items = <<>> THEN <<>>
    ELSE (IF IsSome(Head(items).guid) \/ IsSome(Head(items).link)
          THEN <<ExpectedId(Head(items))>> ELSE <<>>) \o CallIds(Tail(items))

\* and of refresh_all_feeds, feed after feed
RECURSIVE CycleCallIds(_, _)
CycleCallIds(ids, fetched) ==
    IF ids = <<>> THEN <<>>
    ELSE (IF IsSome(fetched[Head(ids)]) THEN CallIds(Get(fetched[Head(ids)]).items)
          ELSE <<>>) \o CycleCallIds(Tail(ids), fetched)

(***************************************************************************)
(* C18: a refresh_feed that returns an error has stored, with their unread *)
(* insertion, the items before the one whose insert_entry failed and has   *)
(* touched no later one; a refresh_feed that returns Ok has stored every   *)
(* item; refresh_all_feeds returns the error whenever one of its           *)
(* insert_entry calls fails, and Ok only if none does, with the calls      *)
(* before the failing one stored.                                          *)
(***************************************************************************)
C18_StorageErrorPropagates ==
    /\ [][last'.op = "refresh_feed"
            => LET ids == CallIds(last'.feed.items)
               IN  \E n \in 0..Len(ids) :
                      /\ (last'.res = "ok") <=> (n = Len(ids))
                      /\ \A j \in 1..n :
                            /\ ids[j] \in DOMAIN entries'
                            /\ entries'[ids[j]].feed_id = last'.id
                            /\ ids[j] \in DOMAIN marks'
                            /\ ids[j] \notin DOMAIN entries => ids[j] \in unread'
                      /\ \A j \in (n + 1)..Len(ids) :
                            /\ Lookup(entries', ids[j]) = Lookup(entries, ids[j])
                            /\ (ids[j] \in unread') <=> (ids[j] \in unread)
        ]_vars
    /\ [](last.op = "refresh_all_feeds"
            => LET ids == CycleCallIds(AscendingIds(DOMAIN last.fetched), last.fetched)
                   fails == last.fail >= 1 /\ last.fail <= Len(ids)
               IN  /\ (last.res = "err") <=> fails
                   /\ fails => \A j \in 1..(last.fail - 1) : ids[j] \in DOMAIN entries
                   /\ ~fails => \A j \in 1..Len(ids) : ids[j] \in DOMAIN entries)

\* the second insert of the cycle failed: the first feed's only item with an
\* identity is stored, the second feed's first item is not, and the cycle
\* returned the error
C18_Witness ==
    /\ last.op = "refresh_all_feeds" /\ last.res = "err" /\ last.fail = 2
    /\ DOMAIN last.fetched = {1, 2}
    /\ Fetched(1) = Some(FeedNL) /\ Fetched(2) = Some(FeedAB)
    /\ IdOf(ItemL) \in DOMAIN entries /\ IdOf(ItemL) \in unread
    /\ IdOf(ItemA) \notin DOMAIN entries /\ IdOf(ItemB) \notin DOMAIN entries

(***************************************************************************)
(* refresh.rs: refresh_all_feeds, one step per suspension point and per    *)
(* item.  cycle.ids are the subscriptions read at line 15, cycle.pending   *)
(* the fetch tasks that have not returned, cycle.results what the others   *)
(* returned, cycle.i and cycle.j the position of the loops of lines 20 and *)
(* 31; cycle.log lists, as <<i, j>>, the insert_entry calls of the cycle.  *)
(* Subscribe requests are served while the cycle runs.                     *)
(***************************************************************************)
JoinSubIds == {0, 1}

CycleAt(pc) == [cycle EXCEPT !.pc = pc]

\* lines 13-19: the subscriptions are read and one task is made for each
cycle_start ==
    /\ cycle.pc \in {"idle", "done"}
    /\ cycle' = [pc |-> "fetching", ids |-> AscendingIds(DOMAIN subs),
                 pending |-> DOMAIN subs, results |-> [id \in DOMAIN subs |-> None],
                 i |-> 1, j |-> 1, log |-> <<>>, res |-> "none"]
    /\ last' = [op |-> "cycle_start"]
    /\ UNCHANGED <<handler, subs, entries, unread, starred, taggings, idgen, txs, marks, written>>

\* a fetch task returns, in any order
cycle_fetch_done(id, outcome) ==
    /\ cycle.pc = "fetching"
    /\ id \in cycle.pending
    /\ cycle' = [cycle EXCEPT !.pending = @ \ {id}, !.results[id] = outcome]
    /\ last' = [op |-> "cycle_fetch_done"]
    /\ UNCHANGED <<handler, subs, entries, unread, starred, taggings, idgen, txs, marks, written>>

\* the loop starts as soon as one task has returned
cycle_joinAny ==
    /\ cycle.pc = "fetching"
    /\ cycle.pending # DOMAIN cycle.results \/ cycle.pending = {}
    /\ cycle' = CycleAt("processing")
    /\ last' = [op |-> "cycle_join"]
    /\ UNCHANGED <<handler, subs, entries, unread, starred, taggings, idgen, txs, marks, written>>

\* line 20: join_all(tasks).await
cycle_join ==
    /\ cycle.pc = "fetching"
    /\ cycle.pending = {}
    /\ cycle' = CycleAt("processing")
    /\ last' = [op |-> "cycle_join"]
    /\ UNCHANGED <<handler, subs, entries, unread, starred, taggings, idgen, txs, marks, written>>

\* lines 20-24: the next result; an Err is logged, an Ok enters refresh_feed
cycle_next_result ==
    /\ cycle.pc = "processing"
    /\ cycle.i <= Len(cycle.ids)
    /\ cycle' = IF IsSome(cycle.results[cycle.ids[cycle.i]])
                THEN [cycle EXCEPT !.pc = "refreshing", !.j = 1]
                ELSE [cycle EXCEPT !.i = @ + 1]
    /\ last' = [op |-> "cycle_next_result"]
    /\ UNCHANGED <<handler, subs, entries, unread, starred, taggings, idgen, txs, marks, written>>

\* lines 31-35: one turn of the loop of refresh_feed
cycle_item(created_at) ==
    /\ cycle.pc = "refreshing"
    /\ LET id == cycle.ids[cycle.i]
           items == Get(cycle.results[id]).items
       IN  IF cycle.j > Len(items)
           THEN /\ cycle' = [cycle EXCEPT !.pc = "processing", !.i = @ + 1]
                /\ UNCHANGED <<entries, unread, marks, written>>
           ELSE LET entry == from_item(id, items[cycle.j], created_at)
                IN  IF IsSome(entry)
                    THEN /\ SetStore(insert_entry(Store, Get(entry)))
                         /\ cycle' = [cycle EXCEPT !.j = @ + 1,
                                                   !.log = Append(@, <<cycle.i, cycle.j>>)]
                    ELSE /\ cycle' = [cycle EXCEPT !.j = @ + 1]
                         /\ UNCHANGED <<entries, unread, marks, written>>
    /\ last' = [op |-> "cycle_item"]
    /\ UNCHANGED <<handler, subs, starred, taggings, idgen, txs>>

\* line 26
cycle_finish ==
    /\ cycle.pc = "processing"
    /\ cycle.i > Len(cycle.ids)
    /\ cycle' = [cycle EXCEPT !.pc = "done", !.res = "ok"]
    /\ last' = [op |-> "cycle_finish"]
    /\ UNCHANGED <<handler, subs, entries, unread, starred, taggings, idgen, txs, marks, written>>

CycleStep ==
    \/ \E id \in SubIds, outcome \in Outcomes : cycle_fetch_done(id, outcome)
    \/ cycle_join
    \/ cycle_next_result
    \/ cycle_item(3000)
    \/ cycle_finish

NextJoin ==
    \/ idgen \in JoinSubIds /\ \E feed \in Feeds : svc_add_subscription(sa, Some(feed), 3000, 0)
    \/ cycle_start
    \/ CycleStep

SpecJoin == Init /\ [][NextJoin]_vars /\ WF_vars(CycleStep)

(***************************************************************************)
(* C19: a cycle makes one fetch task per subscription read at its start    *)
(* and for no other; it calls insert_entry only when every task has        *)
(* returned; its insert_entry calls follow the order of the subscriptions  *)
(* and, within a feed, the order of the items; once started, with every    *)
(* fetch returning and no storage error, it ends with Ok, having stored    *)
(* every item with an identity of every feed that was fetched.             *)
(***************************************************************************)
Running == cycle.pc # "idle"

LogBefore(a, b) == a[1] < b[1] \/ (a[1] = b[1] /\ a[2] < b[2])

CycleCalls ==
    {<<i, j>> \in (1..Len(cycle.ids)) \X (1..3) :
        /\ IsSome(cycle.results[cycle.ids[i]])
        /\ j \in Identified(Get(cycle.results[cycle.ids[i]]).items)}

C19_Safe ==
    Running
    => /\ {cycle.ids[i] : i \in 1..Len(cycle.ids)} = DOMAIN cycle.results
       /\ Len(cycle.ids) = Cardinality(DOMAIN cycle.results)
       /\ cycle.pending \subseteq DOMAIN cycle.results
       /\ cycle.pending # {} => cycle.log = <<>>
       /\ \A a, b \in 1..Len(cycle.log) : a < b => LogBefore(cycle.log[a], cycle.log[b])
       /\ cycle.pc = "done"
            => /\ cycle.res = "ok"
               /\ {cycle.log[a] : a \in 1..Len(cycle.log)} = CycleCalls
               /\ \A c \in CycleCalls :
                     ExpectedId(Get(cycle.results[cycle.ids[c[1]]]).items[c[2]])
                        \in DOMAIN entries

C19_JoinBeforeIngest ==
    /\ []C19_Safe
    /\ [][/\ last'.op = "cycle_start" => cycle'.pending = DOMAIN subs
          /\ (last'.op = "cycle_item" /\ entries' # entries)
                => cycle.pending = {} /\ cycle.pc = "refreshing"
         ]_vars
    /\ (cycle.pc = "fetching") ~> (cycle.pc = "done" /\ cycle.res = "ok")

\* a cycle over two subscriptions ended: the first fetch failed, the two
\* items of the second feed were inserted in the order of the document
C19_Witness ==
    /\ cycle.pc = "done" /\ cycle.res = "ok"
    /\ cycle.ids = <<1, 2>>
    /\ cycle.results[1] = None /\ cycle.results[2] = Some(FeedAB)
    /\ cycle.log = << <<2, 1>>, <<2, 2>> >>
    /\ ItemIds(FeedAB) \subseteq DOMAIN entries

====
